---- MODULE Spec2Model ----
(***************************************************************************)
(* Model of the MSSQL database plugin (plugins/database/mssql/mssql.go):   *)
(* NewUser, UpdateUser/updateUserPass, DeleteUser and revokeUserDefault,   *)
(* called concurrently on one plugin instance that shares one handle and   *)
(* one mutex.  Every database round trip is one step; its outcome (success *)
(* or failure) is an input of the step.                                    *)
(***************************************************************************)
EXTENDS Integers, Sequences, FiniteSets, TLC

\* ------------------------------------------------------------------ bounds

\* statement templates in one request (req.Statements.Commands)
MaxTemplates == 1
\* sessions of the target login when the model starts
MaxSessions == 1
\* databases in which the target login has a mapped user
MaxDBs == 1

\* Two callers run concurrently, each one call of any of the operations.
\* The properties below are about one call or about a pair of calls.
Calls == {1, 2}

\* ------------------------------------------------- strings and templates

\* A string is a sequence of tokens: ";" the separator, " " white space,
\* anything else a piece of SQL text.
SEP == ";"
WS == " "

\* "a; b;"  two statements, a trailing separator, white space to trim
TwoStmts == <<"a", ";", " ", "b", ";">>
\* " ; "    only separators and white space
BlankStmt == <<" ", ";", " ">>
Templates == {TwoStmts, BlankStmt}

\* the default rotation template: white space, one ALTER LOGIN, white space
alterLoginSQL == <<" ", "ALTER LOGIN", " ">>

RECURSIVE TrimLeft(_)
TrimLeft(s) == IF s # <<>> /\ Head(s) = WS THEN TrimLeft(Tail(s)) ELSE s

RECURSIVE TrimRight(_)
TrimRight(s) ==
    IF s # <<>> /\ s[Len(s)] = WS THEN TrimRight(SubSeq(s, 1, Len(s) - 1)) ELSE s

\* strings.TrimSpace
TrimSpace(s) == TrimRight(TrimLeft(s))

\* strings.Split: the fragments between the separators, empty ones included
RECURSIVE Split(_, _)
Split(s, sep) ==
    IF s = <<>> THEN << <<>> >>
    ELSE LET rest == Split(Tail(s), sep)
         IN  IF Head(s) = sep
             THEN << <<>> >> \o rest
             ELSE << <<Head(s)>> \o Head(rest) >> \o Tail(rest)

\* strutil.ParseArbitraryStringSlice on a separator-delimited string (the
\* inputs here are neither base64 nor JSON): trim, split, trim each fragment
ParseArbitraryStringSlice(input, sep) ==
    LET t == TrimSpace(input)
    IN  IF t = <<>> THEN <<>>
        ELSE LET fs == Split(t, sep)
             IN  [i \in 1..Len(fs) |-> TrimSpace(fs[i])]

\* the inner loop without the skip of the empty query
EmptyQueriesToo(fs) == [i \in 1..Len(fs) |-> TrimSpace(fs[i])]

\* the inner loop of the statement loops: trim, skip the empty query
RECURSIVE NonEmptyQueries(_)
NonEmptyQueries(fs) ==
    IF fs = <<>> THEN <<>>
    ELSE LET query == TrimSpace(Head(fs))
         IN  (IF Len(query) = 0 THEN <<>> ELSE <<query>>)
             \o NonEmptyQueries(Tail(fs))

\* the queries a statement loop executes, in order: for each stmt of the
\* commands, for each query of its fragments
RECURSIVE Queries(_)
Queries(cmds) ==
    IF cmds = <<>> THEN <<>>
    ELSE NonEmptyQueries(ParseArbitraryStringSlice(Head(cmds), SEP))
         \o Queries(Tail(cmds))

\* every list of at most n templates
RECURSIVE CommandLists(_)
CommandLists(n) ==
    IF n = 0 THEN {<<>>}
    ELSE CommandLists(n - 1)
         \cup {<<t>> \o l : t \in Templates,
                            l \in {x \in CommandLists(n - 1) : Len(x) = n - 1}}

\* ------------------------------------------------------------------ state

VARIABLES
    pc,        \* pc[c]: where call c is
    op,        \* op[c]: "create", "update", "delete" or "" before the call
    req,       \* req[c]: the request of call c
    idx,       \* idx[c]: position of call c in its statement loop
    plan,      \* plan[c]: revokeStmts of the default revoke
    errs,      \* errs[c]: failed statements recorded by the call so far
    rowsErr,   \* rowsErr[c]: rows.Err() of the mapping enumeration
    ret,       \* ret[c]: what the call returned
    issued,    \* issued[c]: the calls call c made on the provider and handle
    lock,      \* the mutex of the plugin: 0 free, else the call holding it
    txState,   \* txState[c]: the transaction of call c
    pending,   \* pending[c]: effects of call c's transaction, uncommitted
    db,        \* committed effects of executed statements
    server,    \* the target login on the server
    txlog,     \* order of the transaction calls recorded on the handle
    queries,   \* queries[c]: the queries of call c's statement loop, in order
    ctx        \* ctx[c]: the context of call c, with the number of calls the
               \* call had made when it was cancelled

vars == <<pc, op, req, idx, plan, errs, rowsErr, ret, issued, lock, txState,
          pending, db, server, txlog, queries, ctx>>

Target == "u"
Usernames == {"", Target}
Passwords == {"", "p"}

NoReq == [username |-> "", commands |-> <<>>, hasPassword |-> FALSE,
          newPassword |-> "", hasExpiration |-> FALSE]

NotReturned == [kind |-> "running", entries |-> <<>>, user |-> 0]
Ok == [kind |-> "nil", entries |-> <<>>, user |-> 0]
Err(kind) == [kind |-> kind, entries |-> <<>>, user |-> 0]

Call(kind, n, q, ok) == [kind |-> kind, n |-> n, q |-> q, ok |-> ok]

\* a statement as an error names it
Stmt(kind, n) == [kind |-> kind, n |-> n]

\* a context that is not cancelled, and one cancelled after n calls
Background == [done |-> FALSE, at |-> 0]
Cancelled(n) == [done |-> TRUE, at |-> n]

Init ==
    /\ pc = [c \in Calls |-> "idle"]
    /\ op = [c \in Calls |-> ""]
    /\ req = [c \in Calls |-> NoReq]
    /\ idx = [c \in Calls |-> 0]
    /\ plan = [c \in Calls |-> <<>>]
    /\ errs = [c \in Calls |-> <<>>]
    /\ rowsErr = [c \in Calls |-> FALSE]
    /\ ret = [c \in Calls |-> NotReturned]
    /\ issued = [c \in Calls |-> <<>>]
    /\ lock = 0
    /\ txState = [c \in Calls |-> "none"]
    /\ pending = [c \in Calls |-> {}]
    /\ db = {}
    /\ server = [login |-> TRUE, disabled |-> FALSE,
                 sessions |-> 1..MaxSessions, users |-> 1..MaxDBs]
    /\ txlog = <<>>
    /\ queries = [c \in Calls |-> <<>>]
    /\ ctx = [c \in Calls |-> Background]

\* ---------------------------------------------------------------- helpers

Goto(c, l) == pc' = [pc EXCEPT ![c] = l]
Return(c, r) == ret' = [ret EXCEPT ![c] = r]
Issue(c, call) == issued' = [issued EXCEPT ![c] = Append(@, call)]
Record(c, kind) == txlog' = Append(txlog, [call |-> c, kind |-> kind])

\* Lock without the wait: a call goes on while another holds the mutex
LockWithoutWaiting(c) == lock' = c

\* m.Lock(): blocks until the mutex is free
Lock(c) == lock = 0 /\ lock' = c

\* m.Unlock()
Unlock(c) == lock' = 0

\* db.BeginTx
BeginTx(c, ok) ==
    /\ Issue(c, Call("begin", 0, <<>>, ok))
    /\ Record(c, IF ok THEN "begin" ELSE "beginfail")
    /\ txState' = [txState EXCEPT ![c] = IF ok THEN "open" ELSE @]
    /\ pending' = [pending EXCEPT ![c] = {}]

\* dbtxn.ExecuteTxQuery(ctx, tx, m, query): the effect of a statement that
\* succeeds stays inside the transaction
ExecuteTxQuery(c, i, query, ok) ==
    /\ Issue(c, Call("exec", i, query, ok))
    /\ Record(c, "exec")
    /\ pending' = [pending EXCEPT ![c] = IF ok THEN @ \cup {<<c, i>>} ELSE @]

\* tx.Commit(): "ok" makes the effects of the transaction durable; a commit
\* that reports an error either was refused ("fail") or was applied by the
\* server with the acknowledgement lost ("lost"). Either way the transaction
\* is finished.
CommitOutcomes == {"ok", "fail", "lost"}
Commit(c, outcome) ==
    /\ Issue(c, Call("commit", 0, <<>>, outcome = "ok"))
    /\ Record(c, "commit")
    /\ txState' = [txState EXCEPT ![c] = IF outcome = "ok" THEN "committed"
                                                            ELSE "commitfailed"]
    /\ db' = IF outcome = "fail" THEN db ELSE db \cup pending[c]

\* tx.Rollback(): discards the effects of an open transaction; on a finished
\* transaction it does nothing (sql.ErrTxDone)
Rollback(c) ==
    IF txState[c] = "open"
    THEN /\ Issue(c, Call("rollback", 0, <<>>, TRUE))
         /\ Record(c, "rollback")
         /\ txState' = [txState EXCEPT ![c] = "rolledback"]
         /\ pending' = [pending EXCEPT ![c] = {}]
    ELSE /\ Issue(c, Call("rollback", 0, <<>>, FALSE))
         /\ UNCHANGED <<txlog, txState, pending>>

\* ---------------------------------------------------------------- NewUser

\* a createUser request arrives
NewUserCall(c) ==
    /\ pc[c] = "idle"
    /\ \E cmds \in CommandLists(MaxTemplates) :
          /\ req' = [req EXCEPT ![c] = [NoReq EXCEPT !.commands = cmds]]
          /\ queries' = [queries EXCEPT ![c] = Queries(cmds)]
    /\ op' = [op EXCEPT ![c] = "create"]
    /\ Goto(c, "nu_lock")
    /\ UNCHANGED <<idx, plan, errs, rowsErr, ret, issued, lock, txState,
                   pending, db, server, txlog, ctx>>

NewUserLock(c) ==
    /\ pc[c] = "nu_lock"
    /\ Lock(c)
    /\ Goto(c, "nu_conn")
    /\ UNCHANGED <<op, req, idx, plan, errs, rowsErr, ret, issued, txState,
                   pending, db, server, txlog, queries, ctx>>

\* getConnection, the check of the commands, the generated username
NewUserConnect(c) ==
    /\ pc[c] = "nu_conn"
    /\ \E connOk \in BOOLEAN, nameOk \in BOOLEAN :
          /\ Issue(c, Call("conn", 0, <<>>, connOk))
          /\ IF ~connOk
             THEN Return(c, Err("ConnectionError")) /\ Goto(c, "nu_unlock")
             ELSE IF Len(req[c].commands) = 0
             THEN Return(c, Err("ErrEmptyCreationStatement")) /\ Goto(c, "nu_unlock")
             ELSE IF ~nameOk
             THEN Return(c, Err("UsernameError")) /\ Goto(c, "nu_unlock")
             ELSE UNCHANGED ret /\ Goto(c, "nu_begin")
    /\ UNCHANGED <<op, req, idx, plan, errs, rowsErr, lock, txState, pending,
                   db, server, txlog, queries, ctx>>

NewUserBegin(c) ==
    /\ pc[c] = "nu_begin"
    /\ \E ok \in BOOLEAN :
          /\ BeginTx(c, ok)
          /\ IF ok
             THEN UNCHANGED ret /\ Goto(c, "nu_exec")
             ELSE Return(c, Err("BeginError")) /\ Goto(c, "nu_unlock")
    /\ idx' = [idx EXCEPT ![c] = 1]
    /\ UNCHANGED <<op, req, plan, errs, rowsErr, lock, db, server, queries,
                   ctx>>

\* the statement loop without the return on a failed statement
NewUserExecIgnoresError(c) ==
    /\ pc[c] = "nu_exec"
    /\ idx[c] <= Len(queries[c])
    /\ \E ok \in BOOLEAN :
          ExecuteTxQuery(c, idx[c], queries[c][idx[c]], ok)
    /\ idx' = [idx EXCEPT ![c] = @ + 1]
    /\ UNCHANGED <<ret, pc, op, req, plan, errs, rowsErr, lock, txState, db,
                   server, queries, ctx>>

\* one turn of the statement loop
NewUserExec(c) ==
    /\ pc[c] = "nu_exec"
    /\ idx[c] <= Len(queries[c])
    /\ \E ok \in BOOLEAN :
          /\ ExecuteTxQuery(c, idx[c], queries[c][idx[c]], ok)
          /\ IF ok
             THEN /\ idx' = [idx EXCEPT ![c] = @ + 1]
                  /\ UNCHANGED <<ret, pc>>
             ELSE /\ Return(c, Err("ExecError"))
                  /\ Goto(c, "nu_rollback")
                  /\ UNCHANGED idx
    /\ UNCHANGED <<op, req, plan, errs, rowsErr, lock, txState, db, server,
                   queries, ctx>>

\* the loop is over: tx.Commit(), then the response with the username
NewUserCommit(c) ==
    /\ pc[c] = "nu_exec"
    /\ idx[c] > Len(queries[c])
    /\ \E outcome \in CommitOutcomes :
          /\ Commit(c, outcome)
          /\ IF outcome = "ok"
             THEN Return(c, [Ok EXCEPT !.user = c])
             ELSE Return(c, Err("CommitError"))
    /\ Goto(c, "nu_rollback")
    /\ UNCHANGED <<op, req, idx, plan, errs, rowsErr, lock, pending, server,
                   queries, ctx>>

\* NewUser without the deferred tx.Rollback()
NewUserWithoutRollback(c) ==
    /\ pc[c] = "nu_rollback"
    /\ Goto(c, "nu_unlock")
    /\ UNCHANGED <<op, req, idx, plan, errs, rowsErr, ret, issued, lock,
                   txState, pending, db, server, txlog, queries, ctx>>

\* defer tx.Rollback()
NewUserRollback(c) ==
    /\ pc[c] = "nu_rollback"
    /\ Rollback(c)
    /\ Goto(c, "nu_unlock")
    /\ UNCHANGED <<op, req, idx, plan, errs, rowsErr, ret, lock, db, server,
                   queries, ctx>>

\* NewUser returning without the deferred Unlock
NewUserReturnsLocked(c) ==
    /\ pc[c] = "nu_unlock"
    /\ Goto(c, "done")
    /\ UNCHANGED <<op, req, idx, plan, errs, rowsErr, ret, issued, lock,
                   txState, pending, db, server, txlog, queries, ctx>>

\* defer m.Unlock()
NewUserUnlock(c) ==
    /\ pc[c] = "nu_unlock"
    /\ Unlock(c)
    /\ Goto(c, "done")
    /\ UNCHANGED <<op, req, idx, plan, errs, rowsErr, ret, issued, txState,
                   pending, db, server, txlog, queries, ctx>>

NewUser(c) ==
    \/ NewUserCall(c)
    \/ NewUserLock(c)
    \/ NewUserConnect(c)
    \/ NewUserBegin(c)
    \/ NewUserExec(c)
    \/ NewUserCommit(c)
    \/ NewUserRollback(c)
    \/ NewUserUnlock(c)

\* ------------------------------------------------------------- UpdateUser

\* the requests of updateUser: without a password change there are no
\* rotation statements and no new password
UpdateRequests ==
    {[NoReq EXCEPT !.username = u, !.hasExpiration = e] :
        u \in Usernames, e \in BOOLEAN}
    \cup {[NoReq EXCEPT !.username = u, !.hasPassword = TRUE,
                        !.newPassword = p, !.commands = cmds] :
            u \in Usernames, p \in Passwords,
            cmds \in CommandLists(MaxTemplates)}

\* the statements of updateUserPass: the rotation statements of the request,
\* or the default ALTER LOGIN
UpdateStmts(r) ==
    IF Len(r.commands) = 0 THEN <<alterLoginSQL>> ELSE r.commands

\* UpdateUser taking the mutex for every request, as NewUser does
UpdateUserLocksFirst(c) ==
    /\ pc[c] = "idle"
    /\ lock = 0
    /\ \E r \in UpdateRequests :
          /\ req' = [req EXCEPT ![c] = r]
          /\ queries' = [queries EXCEPT ![c] =
                            IF r.hasPassword THEN Queries(UpdateStmts(r))
                            ELSE <<>>]
          /\ IF ~r.hasPassword /\ ~r.hasExpiration
             THEN Return(c, Err("NoChangesRequested")) /\ Goto(c, "done")
             ELSE IF ~r.hasPassword
             THEN Return(c, Ok) /\ Goto(c, "done")
             ELSE IF r.username = "" \/ r.newPassword = ""
             THEN Return(c, Err("InvalidArgument")) /\ Goto(c, "done")
             ELSE UNCHANGED ret /\ Goto(c, "up_lock")
    /\ op' = [op EXCEPT ![c] = "update"]
    /\ UNCHANGED <<idx, plan, errs, rowsErr, issued, lock, txState, pending,
                   db, server, txlog, ctx>>

\* an updateUser request arrives: UpdateUser and, for a password change, the
\* checks of updateUserPass before it takes the lock
UpdateUser(c) ==
    /\ pc[c] = "idle"
    /\ \E r \in UpdateRequests :
          /\ req' = [req EXCEPT ![c] = r]
          /\ queries' = [queries EXCEPT ![c] =
                            IF r.hasPassword THEN Queries(UpdateStmts(r))
                            ELSE <<>>]
          /\ IF ~r.hasPassword /\ ~r.hasExpiration
             THEN Return(c, Err("NoChangesRequested")) /\ Goto(c, "done")
             ELSE IF ~r.hasPassword
             THEN Return(c, Ok) /\ Goto(c, "done")
             ELSE IF r.username = "" \/ r.newPassword = ""
             THEN Return(c, Err("InvalidArgument")) /\ Goto(c, "done")
             ELSE UNCHANGED ret /\ Goto(c, "up_lock")
    /\ op' = [op EXCEPT ![c] = "update"]
    /\ UNCHANGED <<idx, plan, errs, rowsErr, issued, lock, txState, pending,
                   db, server, txlog, ctx>>

UpdateLock(c) ==
    /\ pc[c] = "up_lock"
    /\ Lock(c)
    /\ Goto(c, "up_conn")
    /\ UNCHANGED <<op, req, idx, plan, errs, rowsErr, ret, issued, txState,
                   pending, db, server, txlog, queries, ctx>>

UpdateConnect(c) ==
    /\ pc[c] = "up_conn"
    /\ \E connOk \in BOOLEAN :
          /\ Issue(c, Call("conn", 0, <<>>, connOk))
          /\ IF connOk
             THEN UNCHANGED ret /\ Goto(c, "up_probe")
             ELSE Return(c, Err("ConnectionError")) /\ Goto(c, "up_unlock")
    /\ UNCHANGED <<op, req, idx, plan, errs, rowsErr, lock, txState, pending,
                   db, server, txlog, queries, ctx>>

\* the existence probe: a row, sql.ErrNoRows (not fatal) or another error
UpdateProbe(c) ==
    /\ pc[c] = "up_probe"
    /\ \E outcome \in {"row", "norows", "error"} :
          /\ Issue(c, Call("probe", 0, <<>>, outcome # "error"))
          /\ IF outcome = "error"
             THEN Return(c, Err("ProbeError")) /\ Goto(c, "up_unlock")
             ELSE UNCHANGED ret /\ Goto(c, "up_begin")
    /\ UNCHANGED <<op, req, idx, plan, errs, rowsErr, lock, txState, pending,
                   db, server, txlog, queries, ctx>>

UpdateBegin(c) ==
    /\ pc[c] = "up_begin"
    /\ \E ok \in BOOLEAN :
          /\ BeginTx(c, ok)
          /\ IF ok
             THEN UNCHANGED ret /\ Goto(c, "up_exec")
             ELSE Return(c, Err("BeginError")) /\ Goto(c, "up_unlock")
    /\ idx' = [idx EXCEPT ![c] = 1]
    /\ UNCHANGED <<op, req, plan, errs, rowsErr, lock, db, server, queries,
                   ctx>>
\* the statement loop of updateUserPass going on after a failed statement
UpdateExecGoesOn(c) ==
    /\ pc[c] = "up_exec"
    /\ idx[c] <= Len(queries[c])
    /\ \E ok \in BOOLEAN :
          /\ ExecuteTxQuery(c, idx[c], queries[c][idx[c]], ok)
          /\ IF ok THEN UNCHANGED ret ELSE Return(c, Err("ExecError"))
    /\ idx' = [idx EXCEPT ![c] = @ + 1]
    /\ UNCHANGED <<pc, op, req, plan, errs, rowsErr, lock, txState, db, server,
                   queries, ctx>>

UpdateExec(c) ==
    /\ pc[c] = "up_exec"
    /\ idx[c] <= Len(queries[c])
    /\ \E ok \in BOOLEAN :
          /\ ExecuteTxQuery(c, idx[c], queries[c][idx[c]], ok)
          /\ IF ok
             THEN /\ idx' = [idx EXCEPT ![c] = @ + 1]
                  /\ UNCHANGED <<ret, pc>>
             ELSE /\ Return(c, Err("ExecError"))
                  /\ Goto(c, "up_rollback")
                  /\ UNCHANGED idx
    /\ UNCHANGED <<op, req, plan, errs, rowsErr, lock, txState, db, server,
                   queries, ctx>>

UpdateCommit(c) ==
    /\ pc[c] = "up_exec"
    /\ idx[c] > Len(queries[c])
    /\ \E outcome \in CommitOutcomes :
          /\ Commit(c, outcome)
          /\ IF outcome = "ok"
             THEN Return(c, Ok)
             ELSE Return(c, Err("CommitError"))
    /\ Goto(c, "up_rollback")
    /\ UNCHANGED <<op, req, idx, plan, errs, rowsErr, lock, pending, server,
                   queries, ctx>>

\* updateUserPass without the deferred rollback
UpdateWithoutRollback(c) ==
    /\ pc[c] = "up_rollback"
    /\ Goto(c, "up_unlock")
    /\ UNCHANGED <<op, req, idx, plan, errs, rowsErr, ret, issued, lock,
                   txState, pending, db, server, txlog, queries, ctx>>

\* the deferred func() { _ = tx.Rollback() }
UpdateRollback(c) ==
    /\ pc[c] = "up_rollback"
    /\ Rollback(c)
    /\ Goto(c, "up_unlock")
    /\ UNCHANGED <<op, req, idx, plan, errs, rowsErr, ret, lock, db, server,
                   queries, ctx>>

UpdateUnlock(c) ==
    /\ pc[c] = "up_unlock"
    /\ Unlock(c)
    /\ Goto(c, "done")
    /\ UNCHANGED <<op, req, idx, plan, errs, rowsErr, ret, issued, txState,
                   pending, db, server, txlog, queries, ctx>>

updateUserPass(c) ==
    \/ UpdateLock(c)
    \/ UpdateConnect(c)
    \/ UpdateProbe(c)
    \/ UpdateBegin(c)
    \/ UpdateExec(c)
    \/ UpdateCommit(c)
    \/ UpdateRollback(c)
    \/ UpdateUnlock(c)

\* ------------------------------------------------------------- DeleteUser

\* dbtxn.ExecuteDBQuery(ctx, db, m, query) on the plain handle: the effect of
\* a statement that succeeds is durable at once
ExecuteDBQuery(c, i, query, ok) ==
    /\ Issue(c, Call("exec", i, query, ok))
    /\ db' = IF ok THEN db \cup {<<c, i>>} ELSE db

\* an append that keeps only the last error
KeepLastError(merr, e) == <<e>>

\* multierror.Append(merr, err)
MultierrorAppend(merr, e) == Append(merr, e)

\* merr.ErrorOrNil()
ErrorOrNil(merr) ==
    IF Len(merr) = 0 THEN Ok
    ELSE [kind |-> "multierror", entries |-> merr, user |-> 0]

\* a deleteUser request arrives: without deletion statements the default
\* cascade, else the explicit statements
DeleteUser(c) ==
    /\ pc[c] = "idle"
    /\ \E u \in Usernames, cmds \in CommandLists(MaxTemplates) :
          /\ req' = [req EXCEPT ![c] = [NoReq EXCEPT !.username = u,
                                                     !.commands = cmds]]
          /\ queries' = [queries EXCEPT ![c] = Queries(cmds)]
          /\ IF Len(cmds) = 0 THEN Goto(c, "rv_conn") ELSE Goto(c, "du_conn")
    /\ op' = [op EXCEPT ![c] = "delete"]
    /\ UNCHANGED <<idx, plan, errs, rowsErr, ret, issued, lock, txState,
                   pending, db, server, txlog, ctx>>

DeleteConnect(c) ==
    /\ pc[c] = "du_conn"
    /\ \E connOk \in BOOLEAN :
          /\ Issue(c, Call("conn", 0, <<>>, connOk))
          /\ IF connOk
             THEN UNCHANGED ret /\ Goto(c, "du_exec")
             ELSE Return(c, Err("ConnectionError")) /\ Goto(c, "done")
    /\ idx' = [idx EXCEPT ![c] = 1]
    /\ UNCHANGED <<op, req, plan, errs, rowsErr, lock, txState, pending, db,
                   server, txlog, queries, ctx>>

\* DeleteExec as it would be if deleteUser queued behind the lock
DeleteExecWaitsForLock(c) ==
    /\ lock = 0
    /\ pc[c] = "du_exec"
    /\ idx[c] <= Len(queries[c])
    /\ \E ok \in BOOLEAN :
          /\ ExecuteDBQuery(c, idx[c], queries[c][idx[c]], ok)
          /\ errs' = [errs EXCEPT ![c] =
                         IF ok THEN @
                         ELSE MultierrorAppend(@, Stmt("exec", idx[c]))]
    /\ idx' = [idx EXCEPT ![c] = @ + 1]
    /\ UNCHANGED <<pc, op, req, plan, rowsErr, ret, lock, txState, pending,
                   server, txlog, queries, ctx>>

\* one turn of the statement loop: a failure is appended, the loop goes on
DeleteExec(c) ==
    /\ pc[c] = "du_exec"
    /\ idx[c] <= Len(queries[c])
    /\ \E ok \in BOOLEAN :
          /\ ExecuteDBQuery(c, idx[c], queries[c][idx[c]], ok)
          /\ errs' = [errs EXCEPT ![c] =
                         IF ok THEN @
                         ELSE MultierrorAppend(@, Stmt("exec", idx[c]))]
    /\ idx' = [idx EXCEPT ![c] = @ + 1]
    /\ UNCHANGED <<pc, op, req, plan, rowsErr, ret, lock, txState, pending,
                   server, txlog, queries, ctx>>

DeleteReturn(c) ==
    /\ pc[c] = "du_exec"
    /\ idx[c] > Len(queries[c])
    /\ Return(c, ErrorOrNil(errs[c]))
    /\ Goto(c, "done")
    /\ UNCHANGED <<op, req, idx, plan, errs, rowsErr, issued, lock, txState,
                   pending, db, server, txlog, queries, ctx>>

\* ------------------------------------------------------ revokeUserDefault

RECURSIVE SortedSeq(_)
SortedSeq(S) ==
    IF S = {} THEN <<>>
    ELSE LET m == CHOOSE x \in S : \A y \in S : x <= y
         IN  <<m>> \o SortedSeq(S \ {m})

\* the rows of the session query for a login
SessionRows(username) ==
    IF username = Target THEN SortedSeq(server.sessions) ELSE <<>>

\* the rows of sp_msloginmappings: the database names, 0 a NULL name (the
\* one row of a login without mapped users)
MappingRows(username) ==
    IF username = Target /\ server.users # {}
    THEN SortedSeq(server.users) ELSE <<0>>

\* fmt.Sprintf("KILL %d;", sessionID) for each row read
KillStmts(rows) == [i \in 1..Len(rows) |-> Stmt("kill", rows[i])]

\* fmt.Sprintf(dropUserSQL, ...) for each row read with a valid name
RECURSIVE DropStmts(_)
DropStmts(rows) ==
    IF rows = <<>> THEN <<>>
    ELSE (IF Head(rows) = 0 THEN <<>> ELSE <<Stmt("dropuser", Head(rows))>>)
         \o DropStmts(Tail(rows))

\* whether the server can carry the statement out
CanSucceed(username, stmt) ==
    CASE stmt.kind = "disable" -> username = Target /\ server.login
      [] stmt.kind = "kill" -> stmt.n \in server.sessions
      [] OTHER -> TRUE

\* the server after the statement
Apply(username, stmt) ==
    CASE username # Target -> server
      [] stmt.kind = "disable" -> [server EXCEPT !.disabled = TRUE]
      [] stmt.kind = "kill" -> [server EXCEPT !.sessions = @ \ {stmt.n}]
      [] stmt.kind = "dropuser" -> [server EXCEPT !.users = @ \ {stmt.n}]
      [] stmt.kind = "droplogin" -> [server EXCEPT !.login = FALSE]
      [] OTHER -> server

RevokeConnect(c) ==
    /\ pc[c] = "rv_conn"
    /\ \E connOk \in BOOLEAN :
          /\ Issue(c, Call("conn", 0, <<>>, connOk))
          /\ IF connOk
             THEN UNCHANGED ret /\ Goto(c, "rv_disable")
             ELSE Return(c, Err("ConnectionError")) /\ Goto(c, "done")
    /\ UNCHANGED <<op, req, idx, plan, errs, rowsErr, lock, txState, pending,
                   db, server, txlog, queries, ctx>>

\* the disable step going on when the statement fails to execute
RevokeDisableIgnoresError(c) ==
    /\ pc[c] = "rv_disable"
    /\ \E outcome \in {"prepare", "exec", "ok"} :
          /\ outcome = "ok" => CanSucceed(req[c].username, Stmt("disable", 0))
          /\ IF outcome = "prepare"
             THEN UNCHANGED issued
             ELSE Issue(c, Call("disable", 0, <<>>, outcome = "ok"))
          /\ IF outcome # "prepare"
             THEN /\ server' = IF outcome = "ok"
                               THEN Apply(req[c].username, Stmt("disable", 0))
                               ELSE server
                  /\ UNCHANGED ret
                  /\ Goto(c, "rv_sessions")
             ELSE /\ Return(c, Err("DisableError"))
                  /\ Goto(c, "done")
                  /\ UNCHANGED server
    /\ UNCHANGED <<op, req, idx, plan, errs, rowsErr, lock, txState, pending,
                   db, txlog, queries, ctx>>

\* ALTER LOGIN [username] DISABLE: prepare, then execute
RevokeDisable(c) ==
    /\ pc[c] = "rv_disable"
    /\ \E outcome \in {"prepare", "exec", "ok"} :
          /\ outcome = "ok" => CanSucceed(req[c].username, Stmt("disable", 0))
          /\ IF outcome = "prepare"
             THEN UNCHANGED issued
             ELSE Issue(c, Call("disable", 0, <<>>, outcome = "ok"))
          /\ IF outcome = "ok"
             THEN /\ server' = Apply(req[c].username, Stmt("disable", 0))
                  /\ UNCHANGED ret
                  /\ Goto(c, "rv_sessions")
             ELSE /\ Return(c, Err("DisableError"))
                  /\ Goto(c, "done")
                  /\ UNCHANGED server
    /\ UNCHANGED <<op, req, idx, plan, errs, rowsErr, lock, txState, pending,
                   db, txlog, queries, ctx>>
\* the session query with its failures passed over: the cascade goes on with
\* the rows read so far
RevokeSessionsGoesOn(c) ==
    /\ pc[c] = "rv_sessions"
    /\ LET rows == SessionRows(req[c].username)
       IN  \E outcome \in {"prepare", "query", "scan", "rows"},
              k \in 0..Len(rows) :
              /\ outcome = "scan" => k >= 1
              /\ outcome \in {"prepare", "query"} => k = 0
              /\ IF outcome = "prepare"
                 THEN UNCHANGED issued
                 ELSE Issue(c, Call("sessions", k, <<>>, outcome = "rows"))
              /\ plan' = [plan EXCEPT ![c] = KillStmts(SubSeq(rows, 1, k))]
              /\ UNCHANGED ret
              /\ Goto(c, "rv_mappings")
    /\ UNCHANGED <<op, req, idx, errs, rowsErr, lock, txState, pending, db,
                   server, txlog, queries, ctx>>

\* the session query: prepare, query, then one KILL per row read. A row that
\* cannot be scanned is an error; sessionRows.Err() is not looked at, so an
\* iteration that stops after k rows goes on with those k
RevokeSessions(c) ==
    /\ pc[c] = "rv_sessions"
    /\ LET rows == SessionRows(req[c].username)
       IN  \E outcome \in {"prepare", "query", "scan", "rows"},
              k \in 0..Len(rows) :
              /\ outcome = "scan" => k >= 1
              /\ outcome \in {"prepare", "query"} => k = 0
              /\ IF outcome = "prepare"
                 THEN UNCHANGED issued
                 ELSE Issue(c, Call("sessions", k, <<>>, outcome = "rows"))
              /\ IF outcome = "rows"
                 THEN /\ plan' = [plan EXCEPT ![c] = KillStmts(SubSeq(rows, 1, k))]
                      /\ UNCHANGED ret
                      /\ Goto(c, "rv_mappings")
                 ELSE /\ Return(c, Err("SessionEnumerationError"))
                      /\ Goto(c, "done")
                      /\ UNCHANGED plan
    /\ UNCHANGED <<op, req, idx, errs, rowsErr, lock, txState, pending, db,
                   server, txlog, queries, ctx>>

\* sp_msloginmappings: prepare, query, then one drop-user statement per row
\* read with a database name. A row that cannot be scanned returns at once;
\* an iteration that stops after k rows is kept in rows.Err()
RevokeMappings(c) ==
    /\ pc[c] = "rv_mappings"
    /\ LET rows == MappingRows(req[c].username)
       IN  \E outcome \in {"prepare", "query", "scan", "rows"},
              k \in 0..Len(rows) :
              /\ outcome = "scan" => k >= 1
              /\ outcome \in {"prepare", "query"} => k = 0
              /\ IF outcome = "prepare"
                 THEN UNCHANGED issued
                 ELSE Issue(c, Call("mappings", k, <<>>, outcome = "rows"))
              /\ IF outcome = "rows"
                 THEN /\ plan' = [plan EXCEPT ![c] =
                                     @ \o DropStmts(SubSeq(rows, 1, k))]
                      /\ rowsErr' = [rowsErr EXCEPT ![c] = k < Len(rows)]
                      /\ idx' = [idx EXCEPT ![c] = 1]
                      /\ UNCHANGED ret
                      /\ Goto(c, "rv_cleanup")
                 ELSE /\ Return(c, Err("MappingEnumerationError"))
                      /\ Goto(c, "done")
                      /\ UNCHANGED <<plan, rowsErr, idx>>
    /\ UNCHANGED <<op, req, errs, lock, txState, pending, db, server, txlog,
                   queries, ctx>>
\* the loop over revokeStmts as it would be if it stopped at the first error
RevokeCleanupStopsOnError(c) ==
    /\ pc[c] = "rv_cleanup"
    /\ idx[c] <= Len(plan[c])
    /\ LET stmt == plan[c][idx[c]]
       IN  \E ok \in BOOLEAN :
              /\ ok => CanSucceed(req[c].username, stmt)
              /\ Issue(c, Call(stmt.kind, stmt.n, <<>>, ok))
              /\ server' = IF ok THEN Apply(req[c].username, stmt) ELSE server
              /\ errs' = [errs EXCEPT ![c] = IF ok THEN @ ELSE <<stmt>>]
              /\ idx' = [idx EXCEPT ![c] = IF ok THEN @ + 1
                                           ELSE Len(plan[c]) + 1]
    /\ UNCHANGED <<pc, op, req, plan, rowsErr, ret, lock, txState, pending,
                   db, txlog, queries, ctx>>

\* one turn of the loop over revokeStmts: lastStmtError keeps the last error
RevokeCleanup(c) ==
    /\ pc[c] = "rv_cleanup"
    /\ idx[c] <= Len(plan[c])
    /\ LET stmt == plan[c][idx[c]]
       IN  \E ok \in BOOLEAN :
              /\ ok => CanSucceed(req[c].username, stmt)
              /\ Issue(c, Call(stmt.kind, stmt.n, <<>>, ok))
              /\ server' = IF ok THEN Apply(req[c].username, stmt) ELSE server
              /\ errs' = [errs EXCEPT ![c] = IF ok THEN @ ELSE <<stmt>>]
    /\ idx' = [idx EXCEPT ![c] = @ + 1]
    /\ UNCHANGED <<pc, op, req, plan, rowsErr, ret, lock, txState, pending,
                   db, txlog, queries, ctx>>

\* the check after the loop without the look at lastStmtError
RevokeCheckIgnoresStmtError(c) ==
    /\ pc[c] = "rv_cleanup"
    /\ idx[c] > Len(plan[c])
    /\ IF rowsErr[c]
       THEN Return(c, Err("could not generate sql statements for all rows"))
            /\ Goto(c, "done")
       ELSE UNCHANGED ret /\ Goto(c, "rv_droplogin")
    /\ UNCHANGED <<op, req, idx, plan, errs, rowsErr, issued, lock, txState,
                   pending, db, server, txlog, queries, ctx>>

\* after the loop: rows.Err(), then lastStmtError, else on to the drop
RevokeCheck(c) ==
    /\ pc[c] = "rv_cleanup"
    /\ idx[c] > Len(plan[c])
    /\ IF rowsErr[c]
       THEN Return(c, Err("could not generate sql statements for all rows"))
            /\ Goto(c, "done")
       ELSE IF errs[c] # <<>>
       THEN Return(c, [kind |-> "could not perform all sql statements",
                       entries |-> errs[c], user |-> 0])
            /\ Goto(c, "done")
       ELSE UNCHANGED ret /\ Goto(c, "rv_droplogin")
    /\ UNCHANGED <<op, req, idx, plan, errs, rowsErr, issued, lock, txState,
                   pending, db, server, txlog, queries, ctx>>

\* the guarded DROP LOGIN: prepare, then execute
RevokeDropLogin(c) ==
    /\ pc[c] = "rv_droplogin"
    /\ \E outcome \in {"prepare", "exec", "ok"} :
          /\ IF outcome = "prepare"
             THEN UNCHANGED issued
             ELSE Issue(c, Call("droplogin", 0, <<>>, outcome = "ok"))
          /\ IF outcome = "ok"
             THEN /\ server' = Apply(req[c].username, Stmt("droplogin", 0))
                  /\ Return(c, Ok)
             ELSE /\ Return(c, Err("DropLoginError"))
                  /\ UNCHANGED server
    /\ Goto(c, "done")
    /\ UNCHANGED <<op, req, idx, plan, errs, rowsErr, lock, txState, pending,
                   db, txlog, queries, ctx>>

revokeUserDefault(c) ==
    \/ RevokeConnect(c)
    \/ RevokeDisable(c)
    \/ RevokeSessions(c)
    \/ RevokeMappings(c)
    \/ RevokeCleanup(c)
    \/ RevokeCheck(c)
    \/ RevokeDropLogin(c)

Next ==
    \E c \in Calls :
        \/ NewUser(c)
        \/ UpdateUser(c)
        \/ updateUserPass(c)
        \/ DeleteUser(c)
        \/ DeleteConnect(c)
        \/ DeleteExec(c)
        \/ DeleteReturn(c)
        \/ revokeUserDefault(c)

Spec == Init /\ [][Next]_vars

\* ------------------------------------------------------------ cancellation

\* one step of call c, whatever its operation
Step(c) ==
    \/ NewUser(c)
    \/ UpdateUser(c)
    \/ updateUserPass(c)
    \/ DeleteUser(c)
    \/ DeleteConnect(c)
    \/ DeleteExec(c)
    \/ DeleteReturn(c)
    \/ revokeUserDefault(c)

\* the calls whose caller may cancel the context
Cancellable == {1}

\* the caller cancels the context of a call that is under way
Cancel(c) ==
    /\ pc[c] \notin {"idle", "done"}
    /\ ~ctx[c].done
    /\ ctx' = [ctx EXCEPT ![c] = Cancelled(Len(issued[c]))]
    /\ UNCHANGED <<pc, op, req, idx, plan, errs, rowsErr, ret, issued, lock,
                   txState, pending, db, server, txlog, queries>>

\* database/sql under a cancelled context: PrepareContext, ExecContext,
\* QueryContext, BeginTx and Commit return the error of the context and
\* nothing reaches the server; the transaction of the context is rolled back
CtxErr(c) ==
    ctx[c].done =>
        /\ \A i \in (Len(issued[c]) + 1)..Len(issued'[c]) :
              issued'[c][i].kind \in {"conn", "rollback"} \/ ~issued'[c][i].ok
        /\ db' = db
        /\ server' = server

NextCancel ==
    \/ \E c \in Calls : Step(c) /\ CtxErr(c)
    \/ \E c \in Cancellable : Cancel(c)

SpecCancel == Init /\ [][NextCancel]_vars

\* ------------------------------------------- concurrent default revocation

\* as Init, the login with one session more
InitRevoke ==
    /\ pc = [c \in Calls |-> "idle"]
    /\ op = [c \in Calls |-> ""]
    /\ req = [c \in Calls |-> NoReq]
    /\ idx = [c \in Calls |-> 0]
    /\ plan = [c \in Calls |-> <<>>]
    /\ errs = [c \in Calls |-> <<>>]
    /\ rowsErr = [c \in Calls |-> FALSE]
    /\ ret = [c \in Calls |-> NotReturned]
    /\ issued = [c \in Calls |-> <<>>]
    /\ lock = 0
    /\ txState = [c \in Calls |-> "none"]
    /\ pending = [c \in Calls |-> {}]
    /\ db = {}
    /\ server = [login |-> TRUE, disabled |-> FALSE,
                 sessions |-> 1..(MaxSessions + 1), users |-> 1..MaxDBs]
    /\ txlog = <<>>
    /\ queries = [c \in Calls |-> <<>>]
    /\ ctx = [c \in Calls |-> Background]

\* a database that does what it is asked: a step of a default deleteUser for
\* the target login in which nothing fails but what the server cannot carry
\* out (the KILL of a session that is gone, the DISABLE of a login that was
\* dropped), and in which each enumeration yields all of its rows
Reliable(c) ==
    /\ pc[c] = "idle" => req'[c] = [NoReq EXCEPT !.username = Target]
    /\ (pc[c] # "idle" /\ ~(pc[c] = "rv_cleanup" /\ idx[c] > Len(plan[c]))) =>
          Len(issued'[c]) = Len(issued[c]) + 1
    /\ \A i \in (Len(issued[c]) + 1)..Len(issued'[c]) :
          LET e == issued'[c][i]
          IN  /\ e.ok \/ ~CanSucceed(req[c].username, Stmt(e.kind, e.n))
              /\ e.kind = "sessions" =>
                    e.n = Len(SessionRows(req[c].username))
    /\ ~rowsErr'[c]

NextRevoke ==
    \E c \in Calls : (DeleteUser(c) \/ revokeUserDefault(c)) /\ Reliable(c)

SpecRevoke == InitRevoke /\ [][NextRevoke]_vars

\* ---------------------------------------------------------------- fairness

\* a step of a createUser or password updateUser call that is under way
LockedStep(c) == pc[c] # "idle" /\ (NewUser(c) \/ updateUserPass(c))

\* the calls that use the lock, concurrently
NextLocked ==
    \E c \in Calls :
        \/ NewUser(c)
        \/ UpdateUser(c)
        \/ updateUserPass(c)

\* fair scheduling and database calls that return: a call under way that can
\* take its next step does not wait for ever
SpecFair ==
    Init /\ [][NextLocked]_vars /\ \A c \in Calls : WF_vars(LockedStep(c))

\* ----------------------------------------------------------------- claims

Done(c) == pc[c] = "done"
Failed(c) == ret[c].kind \notin {"running", "nil"}
Kind(c, kinds) == SelectSeq(issued[c], LAMBDA e : e.kind \in kinds)
Execs(c) == Kind(c, {"exec"})
FailedOnes(es) == SelectSeq(es, LAMBDA e : ~e.ok)
Stmts(es) == [i \in 1..Len(es) |-> Stmt(es[i].kind, es[i].n)]
IsCreate(c) == op[c] = "create"
IsRotate(c) == op[c] = "update" /\ req[c].hasPassword
IsExplicit(c) == op[c] = "delete" /\ Len(req[c].commands) > 0
IsDefault(c) == op[c] = "delete" /\ Len(req[c].commands) = 0 /\ pc[c] # "idle"

\* C1: Create is atomic. When the Nth statement of a createUser call fails,
\* the call returns an error, no later statement is executed, the transaction
\* is never committed and is rolled back by the time the call returns, and no
\* effect of the call's statements is in the database.
C1_CreateAtomic ==
    \A c \in Calls : \A j \in 1..Len(issued[c]) :
        (IsCreate(c) /\ issued[c][j].kind = "exec" /\ ~issued[c][j].ok) =>
            /\ Failed(c)
            /\ \A k \in (j + 1)..Len(issued[c]) :
                  issued[c][k].kind \notin {"exec", "commit"}
            /\ \A i \in 1..(issued[c][j].n - 1) :
                  \E k \in 1..(j - 1) : issued[c][k] =
                      Call("exec", i, Queries(req[c].commands)[i], TRUE)
            /\ txState[c] \in {"open", "rolledback"}
            /\ \A e \in db : e[1] # c
            /\ Done(c) => /\ txState[c] = "rolledback"
                          /\ pending[c] = {}
                          /\ ret[c].user = 0

\* a createUser call has returned after its first statement succeeded and
\* its second failed
C1_Witness ==
    \E c \in Calls :
        /\ IsCreate(c) /\ Done(c)
        /\ Kind(c, {"rollback"}) = <<Call("rollback", 0, <<>>, TRUE)>>
        /\ \E j \in 1..Len(issued[c]) :
              issued[c][j].kind = "exec" /\ issued[c][j].n = 2 /\ ~issued[c][j].ok

\* where a call is between taking the lock and releasing it
Critical == {"nu_conn", "nu_begin", "nu_exec", "nu_rollback", "nu_unlock",
             "up_conn", "up_probe", "up_begin", "up_exec", "up_rollback",
             "up_unlock"}

\* C2: Mutual exclusion of createUser and updateUser (password). At most one
\* call is between obtaining the connection and returning, and in the order
\* recorded on the handle no call of another transaction lies between a
\* call's begin and its commit or rollback.
C2_MutualExclusion ==
    /\ Cardinality({c \in Calls : pc[c] \in Critical}) <= 1
    /\ \A c \in Calls : pc[c] \in Critical => lock = c
    /\ \A i \in 1..Len(txlog) : \A j \in (i + 1)..Len(txlog) :
          (txlog[i].kind = "begin" /\ txlog[j].call # txlog[i].call) =>
              \E m \in (i + 1)..(j - 1) :
                  /\ txlog[m].call = txlog[i].call
                  /\ txlog[m].kind \in {"commit", "rollback"}

\* one call is inside its transaction, past its first statement, while
\* another waits for the lock
C2_Witness ==
    \E c \in Calls, d \in Calls :
        /\ c # d
        /\ pc[c] \in {"nu_exec", "up_exec"} /\ idx[c] >= 2
        /\ pc[d] \in {"nu_lock", "up_lock"}

\* what C3 says of an explicit deleteUser call that has returned
ExplicitBestEffort(c) ==
    LET Q == Queries(req[c].commands)
        ex == Execs(c)
    IN  /\ Len(ex) = Len(Q)
        /\ \A i \in 1..Len(ex) : ex[i].n = i /\ ex[i].q = Q[i]
        /\ \A i \in 1..Len(ex) : (<<c, i>> \in db) <=> ex[i].ok
        /\ Failed(c) <=> FailedOnes(ex) # <<>>
        /\ ret[c].entries = Stmts(FailedOnes(ex))

\* C3 as claimed: every explicit deleteUser call attempts every statement
\* once and in order, keeps the effects of those that succeed, and fails
\* exactly when a statement failed, with one entry per failed statement.
C3_AsClaimed ==
    \A c \in Calls : (IsExplicit(c) /\ Done(c)) => ExplicitBestEffort(c)

\* C3 amended: the same of every explicit deleteUser call that obtained its
\* connection; a call that cannot obtain it fails with the connection error
\* and attempts no statement.
C3_ExplicitBestEffort ==
    \A c \in Calls :
        (IsExplicit(c) /\ Done(c)) =>
            IF issued[c][1].ok
            THEN ExplicitBestEffort(c)
            ELSE /\ Execs(c) = <<>>
                 /\ ret[c].kind = "ConnectionError"
                 /\ \A e \in db : e[1] # c

\* an explicit deleteUser call has returned an error of one entry: its
\* first statement failed, its second succeeded and has its effect
C3_Witness ==
    \E c \in Calls :
        /\ IsExplicit(c) /\ Done(c)
        /\ Len(Execs(c)) >= 2
        /\ ~Execs(c)[1].ok /\ Execs(c)[2].ok
        /\ ret[c].entries = <<Stmt("exec", 1)>>
        /\ <<c, 2>> \in db

\* C4: Cascade ordering of the default revoke. The disable statement comes
\* before any enumeration, every kill before any drop-user, and the drop-login
\* is issued only after every cleanup statement was attempted, none of them
\* failed and the mapping enumeration succeeded.
C4_CascadeOrdering ==
    \A c \in Calls : IsDefault(c) =>
        LET log == issued[c]
        IN  /\ \A j \in 1..Len(log) :
                  log[j].kind \in {"sessions", "mappings"} =>
                      \E i \in 1..(j - 1) : log[i] = Call("disable", 0, <<>>, TRUE)
            /\ \A i \in 1..Len(log) : \A j \in 1..Len(log) :
                  (log[i].kind = "kill" /\ log[j].kind = "dropuser") => i < j
            /\ \A j \in 1..Len(log) :
                  log[j].kind = "droplogin" =>
                      /\ ~rowsErr[c]
                      /\ \E i \in 1..(j - 1) : log[i].kind = "mappings" /\ log[i].ok
                      /\ FailedOnes(Kind(c, {"kill", "dropuser"})) = <<>>
                      /\ Len(SelectSeq(SubSeq(log, 1, j - 1),
                               LAMBDA e : e.kind \in {"kill", "dropuser"}))
                            = Len(plan[c])

\* a default revoke has issued its drop-login after kills and a drop-user
C4_Witness ==
    \E c \in Calls :
        /\ IsDefault(c) /\ Done(c)
        /\ Len(Kind(c, {"kill"})) = MaxSessions
        /\ Len(Kind(c, {"dropuser"})) >= 1
        /\ Len(Kind(c, {"droplogin"})) = 1

\* C5: createUser without statement templates returns the empty-statement
\* error, whatever the connection provider does, and makes no call on the
\* provider or the database.
C5_EmptyCreationRejected ==
    \A c \in Calls : (IsCreate(c) /\ Len(req[c].commands) = 0) =>
        /\ issued[c] = <<>>
        /\ Done(c) => ret[c].kind = "ErrEmptyCreationStatement"
\* a createUser call without templates has returned the connection error
C5_FailingInput ==
    \E c \in Calls :
        /\ IsCreate(c) /\ Done(c) /\ Len(req[c].commands) = 0
        /\ ret[c].kind = "ConnectionError"

\* updateUser with only an expiration, as one step of the call
UpdateExpirationOnly(c) ==
    UpdateUser(c) /\ ~req'[c].hasPassword /\ req'[c].hasExpiration

\* C6: Rotate no-op. updateUser with only an expiration returns success in
\* one step that issues nothing and leaves the lock, the transactions and the
\* database as they are, and that step can be taken whoever holds the lock.
C6_RotateNoop ==
    /\ [](\A c \in Calls : pc[c] = "idle" => ENABLED UpdateExpirationOnly(c))
    /\ [][\A c \in Calls :
            UpdateExpirationOnly(c) =>
                /\ pc'[c] = "done"
                /\ ret'[c] = Ok
                /\ issued'[c] = <<>>
                /\ UNCHANGED <<lock, txState, pending, db, server, txlog>>]_vars

\* an expiration-only updateUser has returned success while another call is
\* inside its transaction with the lock
C6_Witness ==
    \E c \in Calls, d \in Calls :
        /\ op[c] = "update" /\ ~req[c].hasPassword /\ req[c].hasExpiration
        /\ Done(c) /\ ret[c] = Ok /\ issued[c] = <<>>
        /\ lock = d /\ pc[d] \in {"nu_exec", "up_exec"} /\ pending[d] # {}

Effects(c) == {e \in db : e[1] = c}
Opened(c) == Kind(c, {"begin"}) # <<>> /\ Kind(c, {"begin"})[1].ok

\* C7 as claimed: whenever updateUser with a password change returns an
\* error, its transaction, if opened, is rolled back (by the call, or by the
\* server that refused its commit) and no effect of its statements is in the
\* database.
C7_AsClaimed ==
    \A c \in Calls :
        (IsRotate(c) /\ Done(c) /\ Failed(c)) =>
            /\ Opened(c) => txState[c] \in {"rolledback", "commitfailed"}
            /\ ~Opened(c) => txState[c] = "none"
            /\ Effects(c) = {}

\* C7 amended: that holds of every error but a failed commit; after a failed
\* commit the transaction is finished without a rollback, and of its
\* statements either none or every one has its effect in the database.
C7_FailedRotate ==
    \A c \in Calls :
        (IsRotate(c) /\ Done(c) /\ Failed(c)) =>
            IF ret[c].kind = "CommitError"
            THEN /\ txState[c] = "commitfailed"
                 /\ Kind(c, {"rollback"}) = <<Call("rollback", 0, <<>>, FALSE)>>
                 /\ Effects(c) \in
                       {{}, {<<c, i>> : i \in 1..Len(Queries(UpdateStmts(req[c])))}}
            ELSE /\ txState[c] = IF Opened(c) THEN "rolledback" ELSE "none"
                 /\ pending[c] = {}
                 /\ Effects(c) = {}

\* a rotation has returned an error after its second statement failed, the
\* first having succeeded inside the transaction
C7_Witness ==
    \E c \in Calls :
        /\ IsRotate(c) /\ Done(c) /\ ret[c].kind = "ExecError"
        /\ Len(Execs(c)) = 2 /\ Execs(c)[1].ok /\ ~Execs(c)[2].ok

Disabled(c) == \E i \in 1..Len(issued[c]) : issued[c][i] = Call("disable", 0, <<>>, TRUE)

\* C8 as claimed: whenever the default revoke returns an error, its disable
\* statement has been executed successfully.
C8_AsClaimed ==
    \A c \in Calls : (IsDefault(c) /\ Done(c) /\ Failed(c)) => Disabled(c)

\* C8 amended: whenever the default revoke returns an error of a step after
\* the disable step (an enumeration, the cleanup, the drop-login), its
\* disable statement has been executed successfully and the login is
\* disabled; the errors of obtaining the connection and of the disable
\* statement itself leave the login as it was.
C8_FailedRevokeDisabled ==
    \A c \in Calls :
        (IsDefault(c) /\ Done(c) /\ Failed(c)) =>
            IF ret[c].kind \in {"ConnectionError", "DisableError"}
            THEN ~Disabled(c) /\ Kind(c, {"sessions", "mappings", "kill",
                                          "dropuser", "droplogin"}) = <<>>
            ELSE Disabled(c) /\ server.disabled

\* a default revoke has returned the cleanup error
C8_Witness ==
    \E c \in Calls :
        /\ IsDefault(c) /\ Done(c)
        /\ ret[c].kind = "could not perform all sql statements"
        /\ server.login

\* C9: the default revoke records every cleanup failure: when k >= 1 of its
\* kill and drop-user statements fail, the returned error holds exactly k
\* entries, one for each.
C9_EveryCleanupFailureRecorded ==
    \A c \in Calls :
        (IsDefault(c) /\ Done(c)) =>
            LET failed == FailedOnes(Kind(c, {"kill", "dropuser"}))
            IN  Len(failed) >= 1 =>
                    /\ Failed(c)
                    /\ ret[c].entries = Stmts(failed)

StatementKinds == {"exec", "disable", "sessions", "mappings", "kill",
                   "dropuser", "droplogin"}

\* C10: deleteUser with an empty username fails with the invalid-argument
\* error on both paths and issues no statement.
C10_MissingUsernameRejected ==
    \A c \in Calls :
        (op[c] = "delete" /\ req[c].username = "") =>
            /\ Kind(c, StatementKinds) = <<>>
            /\ Done(c) => ret[c].kind = "InvalidArgument"

\* where a deleteUser call is between its arrival and its return
Revoking == {"du_conn", "du_exec", "rv_conn", "rv_disable", "rv_sessions",
             "rv_mappings", "rv_cleanup", "rv_droplogin"}

\* the next step of a deleteUser call that is under way
DeleteStep(c) ==
    DeleteConnect(c) \/ DeleteExec(c) \/ DeleteReturn(c) \/ revokeUserDefault(c)

\* C11: deleteUser takes no lock. A deleteUser call, explicit or default,
\* never holds the lock and never waits for it: whoever holds the lock, and
\* whatever transaction is open, the next step of a deleteUser call that is
\* under way can be taken, and no step of a deleteUser call changes the lock.
C11_RevokeTakesNoLock ==
    /\ [](\A c \in Calls :
            /\ op[c] = "delete" => lock # c
            /\ pc[c] \in Revoking => ENABLED DeleteStep(c))
    /\ [][\A c \in Calls :
            (DeleteUser(c) \/ DeleteStep(c)) => lock' = lock]_vars

\* an explicit deleteUser has executed a statement and returned, and another
\* call holds the lock with its transaction open and a statement executed in
\* it
C11_Witness ==
    \E c, d \in Calls :
        /\ IsExplicit(c) /\ Done(c)
        /\ \E i \in 1..Len(issued[c]) :
              issued[c][i].kind = "exec" /\ issued[c][i].ok
        /\ lock = d /\ txState[d] = "open" /\ pending[d] # {}

\* the statements of a batch: of a statement loop or of the cleanup loop
Batch == {"exec", "kill", "dropuser"}

\* the statements of its batch that call c attempted after its context was
\* cancelled
BatchAfter(c) ==
    SelectSeq(SubSeq(issued[c], ctx[c].at + 1, Len(issued[c])),
              LAMBDA e : e.kind \in Batch)

\* the cancellation of call c was observed by a statement of its batch
MidBatch(c) == ctx[c].done /\ BatchAfter(c) # <<>>

\* the effects of the statements call c executed before the cancellation
\* are in place
EffectsRemain(c) ==
    \A i \in 1..ctx[c].at :
        LET e == issued[c][i]
        IN  /\ (e.kind = "exec" /\ e.ok) => <<c, e.n>> \in db
            /\ (e.kind = "kill" /\ e.ok) => e.n \notin server.sessions
            /\ (e.kind = "dropuser" /\ e.ok) => e.n \notin server.users
            /\ (e.kind = "disable" /\ e.ok /\ server.login) => server.disabled

\* C12 as claimed: once a statement of a batch has observed the cancellation,
\* no remaining statement of the batch is attempted; the transaction of
\* createUser and updateUser is rolled back; the effects of the statements
\* deleteUser executed before the cancellation remain.
C12_AsClaimed ==
    \A c \in Calls :
        MidBatch(c) =>
            /\ Len(BatchAfter(c)) = 1
            /\ (op[c] \in {"create", "update"} /\ Done(c)) =>
                  txState[c] = "rolledback" /\ Effects(c) = {}
            /\ op[c] = "delete" => EffectsRemain(c)

\* C12 amended: after the cancellation no statement of the batch reaches the
\* server. createUser and updateUser stop at the statement that observes it,
\* never commit, and have rolled back by the time they return an error.
\* deleteUser does not stop: every remaining statement of the batch is still
\* handed to the executor and fails; the explicit path reports one entry for
\* each, the default path returns an error without the drop-login; the effects
\* of the statements executed before the cancellation remain.
C12_CancelledBatch ==
    \A c \in Calls :
        MidBatch(c) =>
            /\ \A i \in 1..Len(BatchAfter(c)) : ~BatchAfter(c)[i].ok
            /\ op[c] \in {"create", "update"} =>
                  /\ Len(BatchAfter(c)) = 1
                  /\ Kind(c, {"commit"}) = <<>>
                  /\ Done(c) => /\ Failed(c)
                                /\ txState[c] = "rolledback"
                                /\ Effects(c) = {}
            /\ op[c] = "delete" => EffectsRemain(c)
            /\ (IsExplicit(c) /\ Done(c)) => ExplicitBestEffort(c)
            /\ (IsDefault(c) /\ Done(c)) =>
                  /\ Stmts(Kind(c, Batch)) = plan[c]
                  /\ Failed(c)
                  /\ Kind(c, {"droplogin"}) = <<>>

\* a default deleteUser call was cancelled after it had disabled the login
\* and enumerated one session and one mapped database: it went through both
\* cleanup statements, both failed, and it returned with the login disabled
C12_Witness ==
    \E c \in Calls :
        /\ IsDefault(c) /\ Done(c) /\ ctx[c].done
        /\ Disabled(c) /\ server.login /\ server.disabled
        /\ BatchAfter(c) = <<Call("kill", 1, <<>>, FALSE),
                             Call("dropuser", 1, <<>>, FALSE)>>
        /\ ret[c].kind = "could not perform all sql statements"

\* what the default revoke issues after the session enumeration
AfterSessions == {"kill", "mappings", "dropuser", "droplogin"}

\* C13: session enumeration failure is fatal. When the active-session query
\* of the default revoke fails (at prepare, at the query or at a row scan),
\* the call returns the session enumeration error and issues no kill, no
\* mapping enumeration, no drop-user and no drop-login, and the disable
\* statement it executed stays in force.
C13_SessionEnumerationFatal ==
    \A c \in Calls :
        IsDefault(c) =>
            LET sessions == Kind(c, {"sessions"})
            IN  /\ (sessions # <<>> /\ ~sessions[1].ok) =>
                      ret[c].kind = "SessionEnumerationError"
                /\ Kind(c, AfterSessions) # <<>> =>
                      /\ Len(sessions) = 1 /\ sessions[1].ok
                      /\ ret[c].kind # "SessionEnumerationError"
                /\ ret[c].kind = "SessionEnumerationError" =>
                      /\ Done(c)
                      /\ Kind(c, AfterSessions) = <<>>
                      /\ Disabled(c)
                      /\ server.disabled

\* a default revoke has returned the session enumeration error after the
\* scan of the first session row failed: the login is still there, disabled,
\* and so is its session
C13_Witness ==
    \E c \in Calls :
        /\ IsDefault(c) /\ Done(c)
        /\ ret[c].kind = "SessionEnumerationError"
        /\ Kind(c, {"sessions"}) = <<Call("sessions", 1, <<>>, FALSE)>>
        /\ server.login /\ server.disabled /\ server.sessions # {}

\* the mapping enumeration of call c failed: at its start, at a row scan, or
\* while iterating over the rows
MappingsFailed(c) ==
    ret[c].kind = "MappingEnumerationError" \/ rowsErr[c]

\* C14: a mapping enumeration failure does not block the cleanup. When the
\* enumeration of the per-database users fails, the default revoke still
\* attempts every kill and drop-user statement synthesized before the
\* failure, each once and in order, reports the enumeration failure in the
\* error it returns, and skips only the drop-login.
C14_MappingFailureNonBlocking ==
    \A c \in Calls :
        (IsDefault(c) /\ Done(c) /\ MappingsFailed(c)) =>
            /\ Stmts(Kind(c, {"kill", "dropuser"})) = plan[c]
            /\ ret[c].kind \in {"MappingEnumerationError",
                                "could not generate sql statements for all rows"}
            /\ Kind(c, {"droplogin"}) = <<>>

\* the part of C14 the code keeps: after an iteration that ended early
\* (rows.Err) every synthesized statement is attempted and the drop-login is
\* skipped
C14_IterationFailure ==
    \A c \in Calls :
        (IsDefault(c) /\ Done(c) /\ rowsErr[c]) =>
            /\ Stmts(Kind(c, {"kill", "dropuser"})) = plan[c]
            /\ ret[c].kind = "could not generate sql statements for all rows"
            /\ Kind(c, {"droplogin"}) = <<>>

\* both enumerations of the default revoke c succeeded
Enumerated(c) ==
    /\ Kind(c, {"sessions"}) # <<>> /\ Kind(c, {"sessions"})[1].ok
    /\ Kind(c, {"mappings"}) # <<>> /\ Kind(c, {"mappings"})[1].ok
    /\ ~rowsErr[c]

\* C15: the cleanup is best effort. When both enumerations succeeded, with s
\* sessions and d mapped databases, the default revoke attempts exactly s
\* kill statements and then d drop-user statements, each once and in the
\* order of the rows, whichever of them fail: while the loop runs the
\* statements attempted are the first ones of that list, after it all of
\* them.
C15_CleanupBestEffort ==
    \A c \in Calls :
        (IsDefault(c) /\ Enumerated(c)) =>
            LET s == Kind(c, {"sessions"})[1].n
                batch == Kind(c, {"kill", "dropuser"})
                d == Len(plan[c]) - s
            IN  /\ 0 <= d /\ d <= Kind(c, {"mappings"})[1].n
                /\ \A i \in 1..Len(plan[c]) :
                      plan[c][i].kind = IF i <= s THEN "kill" ELSE "dropuser"
                /\ \A i, j \in 1..Len(plan[c]) :
                      (i < j /\ plan[c][i].kind = plan[c][j].kind) =>
                          plan[c][i].n < plan[c][j].n
                /\ Len(batch) <= Len(plan[c])
                /\ Stmts(batch) = SubSeq(plan[c], 1, Len(batch))
                /\ pc[c] = "rv_cleanup" => Len(batch) = idx[c] - 1
                /\ pc[c] \in {"rv_droplogin", "done"} => Len(batch) = Len(plan[c])

\* a default revoke has returned after both enumerations succeeded: its kill
\* statement failed and its drop-user statement was attempted after it and
\* succeeded
C15_Witness ==
    \E c \in Calls :
        /\ IsDefault(c) /\ Done(c) /\ Enumerated(c)
        /\ Kind(c, {"kill", "dropuser"}) =
              <<Call("kill", 1, <<>>, FALSE), Call("dropuser", 1, <<>>, TRUE)>>
        /\ server.users = {}

\* the text of a list of strings, separators and white space left out
RECURSIVE Text(_)
Text(ss) ==
    IF ss = <<>> THEN <<>>
    ELSE SelectSeq(Head(ss), LAMBDA t : t \notin {SEP, WS}) \o Text(Tail(ss))

Range(s) == {s[i] : i \in 1..Len(s)}

\* the transaction calls of call c, in the order it made them
TxCalls(c) == Kind(c, {"begin", "exec", "commit"})

\* C16: statement order within createUser. In a createUser call in which no
\* statement fails, the statements executed are the non-empty, trimmed,
\* semicolon-separated fragments of the creation templates, in template
\* order and in fragment order (while the loop runs, the first ones of them),
\* all in one transaction begun once before the first statement and committed
\* once after the last; the username is returned exactly when that commit
\* succeeds.
C16_CreateStatementOrder ==
    \A c \in Calls :
        (IsCreate(c) /\ FailedOnes(Execs(c)) = <<>>) =>
            LET ex == Execs(c)
                qs == [i \in 1..Len(ex) |-> ex[i].q]
                all == Text(req[c].commands)
                committed == Kind(c, {"commit"}) # <<>>
            IN  /\ \A i \in 1..Len(ex) :
                      /\ ex[i].n = i
                      /\ qs[i] # <<>>
                      /\ SEP \notin Range(qs[i])
                      /\ Head(qs[i]) # WS /\ qs[i][Len(qs[i])] # WS
                /\ Len(Text(qs)) <= Len(all)
                /\ Text(qs) = SubSeq(all, 1, Len(Text(qs)))
                /\ committed => Text(qs) = all
                /\ TxCalls(c) # <<>> =>
                      /\ TxCalls(c)[1].kind = "begin"
                      /\ \A i \in 2..Len(TxCalls(c)) :
                            TxCalls(c)[i].kind =
                                IF committed /\ i = Len(TxCalls(c))
                                THEN "commit" ELSE "exec"
                /\ ex # <<>> => Opened(c)
                /\ Done(c) =>
                      /\ ret[c].user = c <=>
                            (committed /\ Kind(c, {"commit"})[1].ok)
                      /\ ret[c].user # c => ret[c].user = 0 /\ Failed(c)

\* a createUser call of two statements has returned its username: begin, the
\* two statements in order, commit, and the rollback that finds nothing to do
C16_Witness ==
    \E c \in Calls :
        /\ IsCreate(c) /\ Done(c) /\ ret[c].user = c
        /\ req[c].commands = <<TwoStmts>>
        /\ issued[c] = <<Call("conn", 0, <<>>, TRUE),
                         Call("begin", 0, <<>>, TRUE),
                         Call("exec", 1, <<"a">>, TRUE),
                         Call("exec", 2, <<"b">>, TRUE),
                         Call("commit", 0, <<>>, TRUE),
                         Call("rollback", 0, <<>>, FALSE)>>

\* C17: createUser requires at least one non-empty statement. A createUser
\* request whose templates are all empty or hold only separators and white
\* space, so that they expand to zero statements, fails and returns no
\* username. (The error is to be the empty-statement error; the formula leaves
\* its kind open, so that a call that fails for its connection, as in C5, does
\* not count against the claim.)
C17_BlankCreationRejected ==
    \A c \in Calls :
        (IsCreate(c) /\ Text(req[c].commands) = <<>> /\ Done(c)) =>
            /\ Failed(c)
            /\ ret[c].user = 0

\* where a call waits for the lock
Waiting == {"nu_lock", "up_lock"}

\* C18: the lock is always released. The lock is held by exactly the call
\* that is between taking it and releasing it, so by one call at most, and it
\* is free of a call once that call has returned, on whatever path. With fair
\* scheduling and database calls that return, every call that waits for the
\* lock gets it and returns with the lock released.
C18_LockAlwaysReleased ==
    /\ [](\A c \in Calls :
            /\ lock = c <=> pc[c] \in Critical
            /\ Done(c) => lock # c)
    /\ \A c \in Calls : (pc[c] \in Waiting) ~> (lock = c)
    /\ \A c \in Calls : (pc[c] \in Waiting) ~> (Done(c) /\ lock # c)

\* a createUser and a password updateUser have both held the lock and
\* returned, the one after a failed statement and the other after its
\* commit, and the lock is free
C18_Witness ==
    \E c, d \in Calls :
        /\ IsCreate(c) /\ Done(c) /\ ret[c].kind = "ExecError"
        /\ IsRotate(d) /\ Done(d) /\ ret[d] = Ok /\ txState[d] = "committed"
        /\ lock = 0

\* the statements of the transaction of call c, as its request gives them
TxStatements(c) ==
    IF IsCreate(c) THEN Queries(req[c].commands)
    ELSE Queries(UpdateStmts(req[c]))

\* C19: no transaction outlives its call. A transaction that createUser or
\* updateUser opened is finished (committed, refused at commit, or rolled
\* back) when the call releases the lock and when it returns; a commit is
\* issued only after every statement of the call was executed and succeeded;
\* and a transaction whose commit succeeded stays committed, with its effects
\* in the database: the deferred rollback that follows does nothing.
C19_NoTransactionOutlivesCall ==
    /\ [](\A c \in Calls :
            /\ (Opened(c) /\ pc[c] \in {"nu_unlock", "up_unlock", "done"}) =>
                  txState[c] \in {"committed", "commitfailed", "rolledback"}
            /\ ~Opened(c) => txState[c] = "none"
            /\ Kind(c, {"commit"}) # <<>> =>
                  /\ FailedOnes(Execs(c)) = <<>>
                  /\ Len(Execs(c)) = Len(TxStatements(c))
            /\ txState[c] = "committed" =>
                  /\ \A i \in 1..Len(TxStatements(c)) : <<c, i>> \in db
                  /\ Call("rollback", 0, <<>>, TRUE) \notin Range(issued[c]))
    /\ [][\A c \in Calls :
            txState[c] = "committed" =>
                /\ txState'[c] = "committed"
                /\ Effects(c) \subseteq db']_vars

\* a password updateUser of two statements has committed, run its deferred
\* rollback, which did nothing, and returned, while a createUser has returned
\* after a failed statement with its transaction rolled back
C19_Witness ==
    \E c, d \in Calls :
        /\ IsRotate(c) /\ Done(c) /\ txState[c] = "committed"
        /\ Effects(c) = {<<c, 1>>, <<c, 2>>}
        /\ Call("rollback", 0, <<>>, FALSE) \in Range(issued[c])
        /\ IsCreate(d) /\ Done(d) /\ txState[d] = "rolledback"
        /\ ret[d].kind = "ExecError"

\* C20: concurrent default revocation is safe. When two default deleteUser
\* calls for the same login run concurrently, in any interleaving, and nothing
\* fails but what one call causes the other (the kill of a session already
\* gone, the disable of a login already dropped), then once both have
\* returned at least one of them has succeeded and the login and all its
\* per-database users are removed.
C20_ConcurrentRevokeSafe ==
    (\A c \in Calls : IsDefault(c) /\ Done(c)) =>
        /\ \E c \in Calls : ret[c] = Ok
        /\ ~server.login
        /\ server.users = {}

====
